---- MODULE Spec2Model ----
(***************************************************************************)
(* Model of the Gmail alias manager: the Database class (database.py) and  *)
(* the handlers of the Telegram adapter (bot.py) that call it.             *)
(*                                                                         *)
(* Strings are sequences of one-character strings.  A Python value that    *)
(* may be a str or a list is a record [kind, v]; Optional[str] is a record *)
(* [some, val].                                                            *)
(***************************************************************************)
EXTENDS Integers, Sequences, FiniteSets, TLC

VARIABLES
    up,             \* the process is running and db = Database() is constructed
    gmails,         \* Database.gmails: the pool in memory
    services_data,  \* Database.services_data: the assignment record in memory
    gmails_file,    \* content of GMAILS_FILE on disk
    database_file,  \* content of DATABASE_FILE on disk
    conv,           \* per user, the state of the two ConversationHandlers
    user_data,      \* per user, context.user_data["service_name"]
    lastOp,         \* the last completed call and what it returned
    handlers,       \* the button and seed handlers that have started and not finished
    running         \* the handler the event loop is running, 0 when it runs none

vars ==
    <<up, gmails, services_data, gmails_file, database_file, conv, user_data, lastOp,
      handlers, running>>

----------------------------------------------------------------------------
(* Bounds *)

\* longest local part of a seed in the generation check
MaxLocal == 3
\* most aliases one service holds in the state machine
MaxAssigned == 2

----------------------------------------------------------------------------
(* Strings *)

Range(s) == {s[i] : i \in DOMAIN s}

EmptyMap == [x \in {} |-> <<>>]

\* the literal '@gmail.com'
GmailSuffix == <<"@", "g", "m", "a", "i", "l", ".", "c", "o", "m">>

\* str.endswith
EndsWith(s, suffix) ==
    /\ Len(s) >= Len(suffix)
    /\ SubSeq(s, Len(s) - Len(suffix) + 1, Len(s)) = suffix

\* email.split('@')[0]: everything before the first '@'
SplitFirst(email) ==
    LET ats == {i \in DOMAIN email : email[i] = "@"}
    IN  IF ats = {} THEN email
        ELSE SubSeq(email, 1, (CHOOSE i \in ats : \A j \in ats : i <= j) - 1)

\* the characters str.strip removes that occur in the inputs
Whitespace == {" ", "\n"}

\* str.strip
RECURSIVE LStrip(_)
LStrip(s) == IF s # <<>> /\ s[1] \in Whitespace THEN LStrip(Tail(s)) ELSE s

RECURSIVE RStrip(_)
RStrip(s) ==
    IF s # <<>> /\ s[Len(s)] \in Whitespace THEN RStrip(SubSeq(s, 1, Len(s) - 1)) ELSE s

Strip(s) == RStrip(LStrip(s))

\* str.lower on the letters that occur in service names
LowerChar(c) ==
    CASE c = "G" -> "g"
      [] c = "Q" -> "q"
      [] c = "X" -> "x"
      [] OTHER   -> c

Lower(s) == [i \in DOMAIN s |-> LowerChar(s[i])]

----------------------------------------------------------------------------
(* Python values *)

None == [some |-> FALSE, val |-> <<>>]
Some(a) == [some |-> TRUE, val |-> a]

\* truthiness of an Optional[str]: None and '' are both false
Truthy(o) == o.some /\ o.val # <<>>

StrVal(a) == [kind |-> "str", v |-> a]
ListVal(l) == [kind |-> "list", v |-> l]

\* the string check_and_assign_gmail returns when nothing is left
NoGmailsMessage == <<"NO_GMAILS_AVAILABLE">>

----------------------------------------------------------------------------
(* Database.generate_domain_names: the alias enumeration *)

\* itertools.combinations(range(lo, hi + 1), k), in the order it yields them
RECURSIVE Combinations(_, _, _)
Combinations(lo, hi, k) ==
    IF k = 0 THEN << <<>> >>
    ELSE IF hi - lo + 1 < k THEN <<>>
    ELSE LET with == Combinations(lo + 1, hi, k - 1)
             without == Combinations(lo + 1, hi, k)
         IN  [j \in 1..Len(with) |-> <<lo>> \o with[j]] \o without

\* the insertion loop running over pos from its first position on, so that
\* every dot put in shifts the positions still to come
RECURSIVE insert_dots_front_first(_, _)
insert_dots_front_first(username, pos) ==
    IF pos = <<>> THEN username
    ELSE LET p == pos[1]
         IN  insert_dots_front_first(
                 SubSeq(username, 1, p) \o <<".">> \o SubSeq(username, p + 1, Len(username)),
                 Tail(pos))

\* for p in sorted(pos, reverse=True): new_username = new_username[:p] + '.' + new_username[p:]
RECURSIVE InsertDots(_, _)
InsertDots(username, pos) ==
    IF pos = <<>> THEN username
    ELSE LET p == pos[Len(pos)]
         IN  InsertDots(SubSeq(username, 1, p) \o <<".">> \o SubSeq(username, p + 1, Len(username)),
                        SubSeq(pos, 1, Len(pos) - 1))

\* the body of `for i in range(1, len(username))`, from i on
RECURSIVE VariantsFrom(_, _)
VariantsFrom(username, i) ==
    IF i >= Len(username) THEN <<>>
    ELSE LET positions == Combinations(1, Len(username) - 1, i)
         IN  [j \in 1..Len(positions) |-> InsertDots(username, positions[j]) \o GmailSuffix]
                 \o VariantsFrom(username, i + 1)

\* the seed passes the check of line 159
IsGmail(email) == EndsWith(email, GmailSuffix)

\* generated_emails, for a seed that passed the check
GeneratedEmails(email) == <<email>> \o VariantsFrom(SplitFirst(email), 1)

----------------------------------------------------------------------------
(* Database: reads *)

\* get_service_gmails looking the name up as it was passed
get_service_gmails_exact_key(sd, service_name) ==
    LET emails == IF service_name \in DOMAIN sd THEN sd[service_name] ELSE ListVal(<<>>)
    IN  IF emails.kind = "str" THEN <<emails.v>> ELSE emails.v

get_service_gmails(sd, service_name) ==
    LET key == Lower(service_name)
        emails == IF key \in DOMAIN sd THEN sd[key] ELSE ListVal(<<>>)
    IN  IF emails.kind = "str" THEN <<emails.v>> ELSE emails.v

\* get_latest_service_gmail taking emails[0]
oldest_service_gmail(sd, service_name) ==
    LET emails == get_service_gmails(sd, service_name)
    IN  IF emails # <<>> THEN Some(emails[1]) ELSE None

get_latest_service_gmail(sd, service_name) ==
    LET emails == get_service_gmails(sd, service_name)
    IN  IF emails # <<>> THEN Some(emails[Len(emails)]) ELSE None

\* for gmail in self.gmails: if gmail not in used_for_service: return gmail
RECURSIVE FirstNotIn(_, _)
FirstNotIn(pool, used) ==
    IF pool = <<>> THEN None
    ELSE IF Head(pool) \notin used THEN Some(Head(pool))
    ELSE FirstNotIn(Tail(pool), used)

\* get_unused_gmail_for_service looking at the aliases of every service, as
\* get_unused_gmail does
unused_among_all_services(pool, sd, service_name) ==
    FirstNotIn(pool, UNION {Range(sd[s].v) : s \in DOMAIN sd})

get_unused_gmail_for_service(pool, sd, service_name) ==
    LET key == Lower(service_name)
        service_emails == IF key \in DOMAIN sd THEN sd[key] ELSE ListVal(<<>>)
        as_list == IF service_emails.kind = "str" THEN <<service_emails.v>> ELSE service_emails.v
    IN  FirstNotIn(pool, Range(as_list))

----------------------------------------------------------------------------
(* Database: writes.  Each returns the new record and whether               *)
(* _save_services_data ran.                                                 *)

\* assign_gmail_to_service without the membership test of line 123
assign_without_membership_test(sd, service_name, gmail) ==
    LET key == Lower(service_name)
        old == IF key \in DOMAIN sd THEN sd[key].v ELSE <<>>
    IN  [data |-> (key :> ListVal(Append(old, gmail))) @@ sd, saved |-> TRUE]

\* assign_gmail_to_service saving on every call
assign_always_saving(sd, service_name, gmail) ==
    LET key == Lower(service_name)
        old == IF key \in DOMAIN sd THEN sd[key].v ELSE <<>>
    IN  [data |-> (key :> ListVal(IF gmail \in Range(old) THEN old ELSE Append(old, gmail))) @@ sd,
         saved |-> TRUE]

assign_gmail_to_service(sd, service_name, gmail) ==
    LET key == Lower(service_name)
        created == IF key \notin DOMAIN sd THEN sd @@ (key :> ListVal(<<>>)) ELSE sd
        listed == IF created[key].kind = "str"
                  THEN [created EXCEPT ![key] = ListVal(<<created[key].v>>)]
                  ELSE created
    IN  IF gmail \notin Range(listed[key].v)
        THEN [data |-> [listed EXCEPT ![key] = ListVal(Append(listed[key].v, gmail))],
              saved |-> TRUE]
        ELSE [data |-> listed, saved |-> FALSE]

\* check_and_assign_gmail returning the unused alias without recording it
check_without_assign(pool, sd, service_name) ==
    LET existing_gmail == get_latest_service_gmail(sd, service_name)
        new_gmail == get_unused_gmail_for_service(pool, sd, service_name)
    IN  IF Truthy(existing_gmail)
        THEN [existed |-> TRUE, email |-> existing_gmail.val, data |-> sd, saved |-> FALSE]
        ELSE IF Truthy(new_gmail)
        THEN [existed |-> FALSE, email |-> new_gmail.val, data |-> sd, saved |-> FALSE]
        ELSE [existed |-> FALSE, email |-> NoGmailsMessage, data |-> sd, saved |-> FALSE]

check_and_assign_gmail(pool, sd, service_name) ==
    LET name == Lower(service_name)
        existing_gmail == get_latest_service_gmail(sd, name)
        new_gmail == get_unused_gmail_for_service(pool, sd, name)
        assigned == assign_gmail_to_service(sd, name, new_gmail.val)
    IN  IF Truthy(existing_gmail)
        THEN [existed |-> TRUE, email |-> existing_gmail.val, data |-> sd, saved |-> FALSE]
        ELSE IF Truthy(new_gmail)
        THEN [existed |-> FALSE, email |-> new_gmail.val,
              data |-> assigned.data, saved |-> assigned.saved]
        ELSE [existed |-> FALSE, email |-> NoGmailsMessage, data |-> sd, saved |-> FALSE]

\* generate_domain_names without the reset of line 196
generate_keeping_assignments(pool, sd, email) ==
    IF ~IsGmail(email)
    THEN [ok |-> FALSE, gmails |-> pool, data |-> sd, count |-> 0]
    ELSE [ok |-> TRUE, gmails |-> GeneratedEmails(email), data |-> sd,
          count |-> Len(GeneratedEmails(email))]

\* generate_domain_names emptying the record before it checks the seed
generate_resetting_before_check(pool, sd, email) ==
    IF ~IsGmail(email)
    THEN [ok |-> FALSE, gmails |-> pool, data |-> EmptyMap, count |-> 0]
    ELSE [ok |-> TRUE, gmails |-> GeneratedEmails(email), data |-> EmptyMap,
          count |-> Len(GeneratedEmails(email))]

\* lines 158-199 on the memory: ok is FALSE when the call raises ValueError,
\* and then nothing was touched
generate_domain_names(pool, sd, email) ==
    IF ~IsGmail(email)
    THEN [ok |-> FALSE, gmails |-> pool, data |-> sd, count |-> 0]
    ELSE LET generated_emails == GeneratedEmails(email)
         IN  [ok |-> TRUE, gmails |-> generated_emails, data |-> EmptyMap,
              count |-> Len(generated_emails)]

----------------------------------------------------------------------------
(* The two files *)

MissingFile == [kind |-> "missing"]
MalformedFile == [kind |-> "malformed"]
TextFile(lines) == [kind |-> "text", lines |-> lines]
JsonFile(doc) == [kind |-> "json", doc |-> doc]

\* a document that json.load accepts and that is not an object: the text []
JsonArrayFile == [kind |-> "json_array"]

\* [line.strip() for line in file if line.strip()]
_load_gmails(file) ==
    IF file.kind = "missing" THEN <<>>
    ELSE LET stripped == [i \in DOMAIN file.lines |-> Strip(file.lines[i])]
         IN  SelectSeq(stripped, LAMBDA line : line # <<>>)

\* the lines of a text that ends in a newline, the newlines taken off
RECURSIVE SplitLines(_)
SplitLines(text) ==
    LET ends == {i \in DOMAIN text : text[i] = "\n"}
    IN  IF ends = {} THEN <<>>
        ELSE LET first == CHOOSE i \in ends : \A j \in ends : i <= j
             IN  <<SubSeq(text, 1, first - 1)>>
                     \o SplitLines(SubSeq(text, first + 1, Len(text)))

\* GMAILS_FILE after `for email in generated_emails: file.write(f"{email}\n")`
RECURSIVE WrittenLines(_)
WrittenLines(generated_emails) ==
    IF generated_emails = <<>> THEN <<>>
    ELSE SplitLines(Append(generated_emails[1], "\n"))
             \o WrittenLines(Tail(generated_emails))

\* a missing file and a JSONDecodeError both give {}; json.load of the text
\* [] gives the empty list, which is <<>> as the empty dict is: the kind of
\* the file keeps the two apart
_load_services_data(file) == IF file.kind = "json" THEN file.doc ELSE EmptyMap

\* line 39 on what json.load returned: a list has no items()
MigrationRaises(file) == file.kind = "json_array"

\* the migration loop without need_save = True
migrate_without_saving(sd) ==
    [data |-> [s \in DOMAIN sd |-> IF sd[s].kind = "str" THEN ListVal(<<sd[s].v>>) ELSE sd[s]],
     need_save |-> FALSE]

\* the record after the migration loop, and need_save
_migrate_data_if_needed(sd) ==
    [data |-> [s \in DOMAIN sd |-> IF sd[s].kind = "str" THEN ListVal(<<sd[s].v>>) ELSE sd[s]],
     need_save |-> \E s \in DOMAIN sd : sd[s].kind = "str"]

\* json.dump(self.services_data, file, indent=4) run to the end
_save_services_data(sd) == JsonFile(sd)

\* what a write leaves when the process stops before it has finished:
\* open(..., 'w') has emptied the file, and only part of the text is there
TornJson == MalformedFile

----------------------------------------------------------------------------
(* Inputs *)

AtGmail(local) == local \o GmailSuffix

\* an address of another provider
AtMail(local) == local \o <<"@", "m", "a", "i", "l", ".", "c", "o", "m">>

\* service names as callers pass them
ServiceNameInputs == {<<"g", "q">>, <<"G", "q">>, <<"x">>}

\* seeds passed to generate_domain_names: a one-letter local part, one that
\* already holds a dot, and an address of another provider
SeedInputs == {AtGmail(<<"a">>), AtGmail(<<"a", ".", "b">>), AtMail(<<"a", "b">>)}

\* aliases passed to assign_gmail_to_service: the pool's, and one that the
\* pool need not hold
GmailInputs(pool) == Range(pool) \cup {AtGmail(<<"a">>)}

\* GMAILS_FILE as the process finds it at startup: absent, or a list kept by
\* hand with a trailing space and an empty line
InitGmailsFiles ==
    {MissingFile,
     TextFile(<<AtGmail(<<"a">>) \o <<" ">>, <<>>>>)}

\* the same, and a list kept by hand whose only line is the text of the
\* no-gmails message
HandKeptGmailsFiles == InitGmailsFiles \cup {TextFile(<<NoGmailsMessage>>)}

\* DATABASE_FILE as the process finds it at startup: written by this version
\* (lists), by the older one (bare strings), unreadable, or readable and not
\* an object
InitDatabaseFiles ==
    {MissingFile,
     MalformedFile,
     JsonFile(<<"g", "q">> :> StrVal(AtGmail(<<"a">>))),
     JsonFile((<<"g", "q">> :> StrVal(AtGmail(<<"a", ".", "b">>)))
                @@ (<<"x">> :> ListVal(<<AtGmail(<<"a">>), AtGmail(<<"a", ".", "b">>)>>))),
     JsonFile(<<"x">> :> ListVal(<<AtGmail(<<"a">>)>>)),
     JsonArrayFile}

----------------------------------------------------------------------------
(* The adapter's users and conversation states *)

OWNER_ID == 1
Users == {OWNER_ID, OWNER_ID + 1}

WAITING_EMAIL == 1
ConversationEND == -1

\* no conversation is running: what ConversationHandler holds at startup
NoConversations == [u \in Users |-> [cmd |-> ConversationEND, btn |-> ConversationEND]]

\* no user has named a service
NoUserData == [u \in Users |-> None]

\* the handlers that can be in flight together
HandlerIds == {1, 2}

\* a handler that has not started: what it was started with (data, text),
\* the local variables service_name, new_email, email and email_count, and
\* the statement it is at
IdleHandler ==
    [pc |-> "idle", data |-> "", text |-> <<>>, service_name |-> <<>>,
     new_email |-> None, has_email |-> FALSE, email |-> <<>>, email_count |-> 0]

NoHandlers == [h \in HandlerIds |-> IdleHandler]

----------------------------------------------------------------------------
(* The record of the last call *)

NoPrev == [same |-> FALSE, unbound |-> FALSE, existed |-> FALSE, email |-> <<>>]

BlankOp ==
    [op |-> "none", by |-> {}, name |-> <<>>, arg |-> <<>>, ok |-> TRUE,
     existed |-> FALSE, email |-> <<>>, count |-> 0, saved |-> FALSE,
     unbound |-> FALSE, prev |-> NoPrev]

\* what lastOp says of the call before this one, when it was the same call
PrevOf(op, name) ==
    IF lastOp.op = op /\ lastOp.name = name
    THEN [same |-> TRUE, unbound |-> lastOp.unbound,
          existed |-> lastOp.existed, email |-> lastOp.email]
    ELSE NoPrev

Unbound(sd, name) == get_service_gmails(sd, name) = <<>>

\* the service's list is still short enough for the model to follow an append
WithinBound(sd, name) == Len(get_service_gmails(sd, name)) < MaxAssigned

----------------------------------------------------------------------------
(* Startup and stop *)

Init ==
    /\ up = FALSE
    /\ gmails = <<>>
    /\ services_data = EmptyMap
    /\ gmails_file \in InitGmailsFiles
    /\ database_file \in InitDatabaseFiles
    /\ conv = NoConversations
    /\ user_data = NoUserData
    /\ lastOp = BlankOp
    /\ handlers = NoHandlers
    /\ running = 0

\* the process is gone: nothing of its memory is left
Down ==
    /\ up' = FALSE
    /\ gmails' = <<>>
    /\ services_data' = EmptyMap
    /\ conv' = NoConversations
    /\ user_data' = NoUserData
    /\ handlers' = NoHandlers
    /\ running' = 0

\* db = Database()
Construct ==
    /\ ~up
    /\ ~MigrationRaises(database_file)
    /\ LET migrated == _migrate_data_if_needed(_load_services_data(database_file))
       IN  /\ up' = TRUE
           /\ gmails' = _load_gmails(gmails_file)
           /\ services_data' = migrated.data
           /\ database_file' = IF migrated.need_save
                               THEN _save_services_data(migrated.data)
                               ELSE database_file
           /\ lastOp' = [BlankOp EXCEPT !.op = "init", !.saved = migrated.need_save]
    /\ UNCHANGED <<gmails_file, conv, user_data, handlers, running>>

\* db = Database() ending in the AttributeError of line 39
ConstructRaises ==
    /\ ~up
    /\ MigrationRaises(database_file)
    /\ lastOp' = [BlankOp EXCEPT !.op = "init_raised", !.ok = FALSE]
    /\ UNCHANGED <<up, gmails, services_data, gmails_file, database_file, conv, user_data,
                 handlers, running>>

\* the process exits between two calls
Stop ==
    /\ up
    /\ Down
    /\ lastOp' = [BlankOp EXCEPT !.op = "stop"]
    /\ UNCHANGED <<gmails_file, database_file>>

----------------------------------------------------------------------------
(* Calls of the Database *)

AssignGmailToService(service_name, gmail) ==
    /\ up
    /\ WithinBound(services_data, service_name)
    /\ LET r == assign_gmail_to_service(services_data, service_name, gmail)
       IN  /\ services_data' = r.data
           /\ database_file' = IF r.saved THEN _save_services_data(r.data) ELSE database_file
           /\ lastOp' = [BlankOp EXCEPT !.op = "assign", !.name = service_name, !.arg = gmail,
                                        !.saved = r.saved,
                                        !.unbound = Unbound(services_data, service_name),
                                        !.prev = PrevOf("assign", service_name)]
    /\ UNCHANGED <<up, gmails, gmails_file, conv, user_data, handlers, running>>

CheckAndAssignGmail(service_name) ==
    /\ up
    /\ LET r == check_and_assign_gmail(gmails, services_data, service_name)
       IN  /\ services_data' = r.data
           /\ database_file' = IF r.saved THEN _save_services_data(r.data) ELSE database_file
           /\ lastOp' = [BlankOp EXCEPT !.op = "check", !.name = service_name,
                                        !.existed = r.existed, !.email = r.email,
                                        !.saved = r.saved,
                                        !.unbound = Unbound(services_data, service_name),
                                        !.prev = PrevOf("check", service_name)]
    /\ UNCHANGED <<up, gmails, gmails_file, conv, user_data, handlers, running>>

\* no service holds an alias
AllUnbound(sd) == \A s \in DOMAIN sd : get_service_gmails(sd, s) = <<>>

GenerateDomainNames(email) ==
    /\ up
    /\ LET r == generate_domain_names(gmails, services_data, email)
       IN  /\ gmails' = r.gmails
           /\ services_data' = r.data
           /\ gmails_file' = IF r.ok THEN TextFile(WrittenLines(r.gmails)) ELSE gmails_file
           /\ database_file' = IF r.ok THEN _save_services_data(r.data) ELSE database_file
           /\ lastOp' = [BlankOp EXCEPT !.op = "generate", !.name = email, !.ok = r.ok,
                                        !.count = r.count, !.saved = r.ok,
                                        !.unbound = AllUnbound(services_data)]
    /\ UNCHANGED <<up, conv, user_data, handlers, running>>

----------------------------------------------------------------------------
(* The process stopping inside a call.  A file opened with 'w' is empty     *)
(* from that moment and is filled as the text is written.                   *)

\* Database() stops inside the _save_services_data of line 46
StopDuringMigration ==
    /\ ~up
    /\ _migrate_data_if_needed(_load_services_data(database_file)).need_save
    /\ database_file' = TornJson
    /\ lastOp' = [BlankOp EXCEPT !.op = "stop_in_migration"]
    /\ UNCHANGED <<up, gmails, services_data, gmails_file, conv, user_data, handlers, running>>

\* a call that appends stops inside the _save_services_data of line 125
StopDuringSave(service_name, gmail) ==
    /\ up
    /\ assign_gmail_to_service(services_data, service_name, gmail).saved
    /\ database_file' = TornJson
    /\ Down
    /\ lastOp' = [BlankOp EXCEPT !.op = "stop_in_save"]
    /\ UNCHANGED gmails_file

\* generate_domain_names stops after writing the first k lines of the pool
\* (lines 188-190); with all of them written it stops before line 197 opens
\* DATABASE_FILE, or inside that write
StopDuringGenerate(email) ==
    /\ up
    /\ IsGmail(email)
    /\ LET generated_emails == GeneratedEmails(email)
       IN  \E k \in 0..Len(generated_emails) :
               /\ gmails_file' = TextFile(WrittenLines(SubSeq(generated_emails, 1, k)))
               /\ database_file' \in IF k = Len(generated_emails)
                                     THEN {database_file, TornJson}
                                     ELSE {database_file}
    /\ Down
    /\ lastOp' = [BlankOp EXCEPT !.op = "stop_in_generate"]

Next ==
    \/ Construct
    \/ ConstructRaises
    \/ Stop
    \/ StopDuringMigration
    \/ \E n \in ServiceNameInputs : \E g \in GmailInputs(gmails) : StopDuringSave(n, g)
    \/ \E e \in SeedInputs : StopDuringGenerate(e)
    \/ \E n \in ServiceNameInputs : \E g \in GmailInputs(gmails) : AssignGmailToService(n, g)
    \/ \E n \in ServiceNameInputs : CheckAndAssignGmail(n)
    \/ \E e \in SeedInputs : GenerateDomainNames(e)

Spec == Init /\ [][Next]_vars

----------------------------------------------------------------------------
(* The Telegram adapter.  Updates are dispatched to the first handler of    *)
(* main() that accepts them: the /generate conversation, the GENERATE       *)
(* button conversation, handle_service_name, button_callback.  A            *)
(* conversation that is waiting accepts non-command text and /cancel only;  *)
(* one that is not accepts its entry point only.  A handler that returns    *)
(* None leaves the conversation where it was.                               *)

REGISTER == "register"
VIEW_EMAIL == "view_email"
ASSIGN_NEW == "assign_new"
GENERATE == "generate"

\* texts sent as service names
ServiceTexts == {<<"G", "q", " ">>, <<"x">>}

\* texts sent while a seed is awaited: Gmail addresses, one with spaces
\* around it and one written over two lines, other providers, a cut suffix,
\* a service name
SeedTexts ==
    {AtGmail(<<"a">>),
     AtGmail(<<"a", "\n">>),
     <<" ">> \o AtGmail(<<"a", "b">>) \o <<" ">>,
     AtMail(<<"a", "b">>),
     AtGmail(<<"a", "b">>) \o <<".", "u", "a">>,
     <<"a", "b", "@", "g", "m", "a", "i", "l", ".", "c", "o">>,
     <<"G", "q", " ">>}

Waiting(u) == conv[u].cmd = WAITING_EMAIL \/ conv[u].btn = WAITING_EMAIL

\* the conversation of u that takes the update: the /generate one comes first
\* in main()
Taking(u) == IF conv[u].cmd = WAITING_EMAIL THEN "cmd" ELSE "btn"

\* /generate
GenerateCommand(u) ==
    /\ up
    /\ conv[u].cmd # WAITING_EMAIL
    /\ conv' = IF u = OWNER_ID THEN [conv EXCEPT ![u].cmd = WAITING_EMAIL] ELSE conv
    /\ lastOp' = [BlankOp EXCEPT !.op = "generate_command", !.by = {u}, !.ok = (u = OWNER_ID)]
    /\ UNCHANGED <<up, gmails, services_data, gmails_file, database_file, user_data,
                 handlers, running>>

\* start_generate_domains returning WAITING_EMAIL, as it would if it were
\* handed the callback query
start_generate_domains_returning(state) == WAITING_EMAIL

\* the state of the button conversation after start_generate_domains.  The
\* CallbackQueryHandler calls it with (update, context), so `query` is the
\* Update, which has no edit_message_text: line 104 raises AttributeError,
\* line 109 is not reached and the ConversationHandler keeps its state
start_generate_domains(state) == state

\* the GENERATE button
StartGenerateDomains(u) ==
    /\ up
    /\ conv[u].btn # WAITING_EMAIL
    /\ conv' = [conv EXCEPT ![u].btn = start_generate_domains(conv[u].btn)]
    /\ lastOp' = [BlankOp EXCEPT !.op = "start_generate_domains", !.by = {u}, !.ok = FALSE]
    /\ UNCHANGED <<up, gmails, services_data, gmails_file, database_file, user_data,
                 handlers, running>>

\* a text message while a conversation of u is waiting
ProcessEmailForGeneration(u, text) ==
    /\ up
    /\ Waiting(u)
    /\ LET email == Strip(text)
           r == generate_domain_names(gmails, services_data, email)
           next == IF r.ok THEN ConversationEND ELSE WAITING_EMAIL
       IN  /\ gmails' = r.gmails
           /\ services_data' = r.data
           /\ gmails_file' = IF r.ok THEN TextFile(WrittenLines(r.gmails)) ELSE gmails_file
           /\ database_file' = IF r.ok THEN _save_services_data(r.data) ELSE database_file
           /\ conv' = IF Taking(u) = "cmd"
                      THEN [conv EXCEPT ![u].cmd = next]
                      ELSE [conv EXCEPT ![u].btn = next]
           /\ lastOp' = [BlankOp EXCEPT !.op = "process_email", !.by = {u}, !.name = email,
                                        !.ok = r.ok, !.count = r.count, !.saved = r.ok,
                                        !.unbound = AllUnbound(services_data)]
    /\ UNCHANGED <<up, user_data, handlers, running>>

\* the state of a conversation after its /cancel fallback.  The callback is
\* a plain lambda; the handler awaits what it returns, and awaiting the int
\* ConversationHandler.END raises TypeError, so the state is kept
cancel_fallback(state) == state

\* /cancel while a conversation of u is waiting
Cancel(u) ==
    /\ up
    /\ Waiting(u)
    /\ conv' = IF Taking(u) = "cmd"
               THEN [conv EXCEPT ![u].cmd = cancel_fallback(conv[u].cmd)]
               ELSE [conv EXCEPT ![u].btn = cancel_fallback(conv[u].btn)]
    /\ lastOp' = [BlankOp EXCEPT !.op = "cancel", !.by = {u}, !.ok = FALSE]
    /\ UNCHANGED <<up, gmails, services_data, gmails_file, database_file, user_data,
                 handlers, running>>

\* a text message while no conversation of u is waiting
HandleServiceName(u, text) ==
    /\ up
    /\ ~Waiting(u)
    /\ user_data' = IF u = OWNER_ID THEN [user_data EXCEPT ![u] = Some(Strip(text))]
                    ELSE user_data
    /\ lastOp' = [BlankOp EXCEPT !.op = "service_name", !.by = {u}, !.name = Strip(text),
                                 !.ok = (u = OWNER_ID)]
    /\ UNCHANGED <<up, gmails, services_data, gmails_file, database_file, conv, handlers, running>>

\* handle_registration, handle_view_email and handle_assign_new on the
\* Database: the record after the call, whether it saved, and what is shown
ButtonEffect(data, pool, sd, service_name) ==
    LET checked == check_and_assign_gmail(pool, sd, service_name)
        new_email == get_unused_gmail_for_service(pool, sd, service_name)
        assigned == assign_gmail_to_service(sd, service_name, new_email.val)
    IN  IF data = REGISTER
        THEN [data |-> checked.data, saved |-> checked.saved,
              existed |-> checked.existed, email |-> checked.email,
              count |-> Len(get_service_gmails(checked.data, service_name))]
        ELSE IF data = ASSIGN_NEW /\ Truthy(new_email)
        THEN [data |-> assigned.data, saved |-> assigned.saved,
              existed |-> FALSE, email |-> new_email.val,
              count |-> Len(get_service_gmails(assigned.data, service_name))]
        ELSE [data |-> sd, saved |-> FALSE, existed |-> FALSE, email |-> <<>>,
              count |-> Len(get_service_gmails(sd, service_name))]

\* a button other than one that starts the GENERATE conversation
ButtonCallback(u, data) ==
    /\ up
    /\ data = GENERATE => conv[u].btn = WAITING_EMAIL
    /\ IF u = OWNER_ID /\ Truthy(user_data[u]) /\ data # GENERATE
       THEN LET service_name == user_data[u].val
                r == ButtonEffect(data, gmails, services_data, service_name)
            IN  /\ Len(get_service_gmails(r.data, service_name)) <= MaxAssigned
                /\ services_data' = r.data
                /\ database_file' = IF r.saved THEN _save_services_data(r.data)
                                    ELSE database_file
                /\ lastOp' = [BlankOp EXCEPT !.op = data, !.by = {u}, !.name = service_name,
                                             !.existed = r.existed, !.email = r.email,
                                             !.count = r.count, !.saved = r.saved,
                                             !.unbound = Unbound(services_data, service_name),
                                             !.prev = PrevOf(data, service_name)]
       ELSE /\ lastOp' = [BlankOp EXCEPT !.op = "button_ignored", !.by = {u}, !.ok = FALSE]
            /\ UNCHANGED <<services_data, database_file>>
    /\ UNCHANGED <<up, gmails, gmails_file, conv, user_data, handlers, running>>

NextBot ==
    \/ Construct
    \/ ConstructRaises
    \/ Stop
    \/ \E u \in Users : GenerateCommand(u)
    \/ \E u \in Users : StartGenerateDomains(u)
    \/ \E u \in Users : \E text \in SeedTexts : ProcessEmailForGeneration(u, text)
    \/ \E u \in Users : Cancel(u)
    \/ \E u \in Users : \E text \in ServiceTexts : HandleServiceName(u, text)
    \/ \E u \in Users : \E data \in {REGISTER, VIEW_EMAIL, ASSIGN_NEW, GENERATE} :
           ButtonCallback(u, data)

SpecBot == Init /\ [][NextBot]_vars

----------------------------------------------------------------------------
(* generate_domain_names on every seed of up to MaxLocal characters before  *)
(* the domain, called on a Database that found no files                     *)

SeedChars == {"a", "b", "c", "."}

RECURSIVE StringsUpTo(_)
StringsUpTo(n) ==
    IF n = 0 THEN {<<>>}
    ELSE LET shorter == StringsUpTo(n - 1)
         IN  shorter \cup {Append(w, c) : w \in shorter, c \in SeedChars}

\* every such Gmail address, one with a second '@', and one of another provider
AllSeeds ==
    {AtGmail(local) : local \in StringsUpTo(MaxLocal)}
        \cup {AtGmail(<<"a", "b", "@", "c">>), AtMail(<<"a", "b">>)}

InitGen ==
    /\ up = TRUE
    /\ gmails = <<>>
    /\ services_data = EmptyMap
    /\ gmails_file = MissingFile
    /\ database_file = MissingFile
    /\ conv = NoConversations
    /\ user_data = NoUserData
    /\ lastOp = [BlankOp EXCEPT !.op = "init"]
    /\ handlers = NoHandlers
    /\ running = 0

NextGen == \E e \in AllSeeds : GenerateDomainNames(e)

SpecGen == InitGen /\ [][NextGen]_vars

----------------------------------------------------------------------------
(* Properties of the enumeration *)

RECURSIVE Pow2(_)
Pow2(n) == IF n = 0 THEN 1 ELSE 2 * Pow2(n - 1)

\* the local part as line 163 takes it: the text before the first '@'
LocalPart(seed) == SplitFirst(seed)

\* C5: an accepted seed with a local part of N >= 1 characters gives the
\* count 2^(N-1) and a pool of 2^(N-1) aliases, no two of them equal, the
\* seed first.
C5_PoolSizeAndDistinctness ==
    (lastOp.op = "generate" /\ lastOp.ok /\ Len(LocalPart(lastOp.name)) >= 1) =>
        LET size == Pow2(Len(LocalPart(lastOp.name)) - 1)
        IN  /\ lastOp.count = size
            /\ Len(gmails) = size
            /\ Cardinality(Range(gmails)) = size
            /\ gmails[1] = lastOp.name

\* the local part with a dot after each of its first p characters, p in P
WithDotsAt(local, P) ==
    [i \in 1..(Len(local) + Cardinality(P)) |->
        IF \E p \in P : i = p + Cardinality({q \in P : q <= p})
        THEN "."
        ELSE local[CHOOSE k \in 1..Len(local) : i = k + Cardinality({p \in P : p < k})]]

\* Q comes before P: fewer positions, or as many and the smaller position
\* where the two first differ
ComesBefore(Q, P) ==
    \/ Cardinality(Q) < Cardinality(P)
    \/ /\ Cardinality(Q) = Cardinality(P)
       /\ Q # P
       /\ LET diff == (Q \ P) \cup (P \ Q)
          IN  (CHOOSE m \in diff : \A d \in diff : m <= d) \in Q

\* C6: the pool is the seed, then one variant per non-empty set of
\* boundaries 1..N-1 of the local part, sets with fewer dots first and sets
\* of one size in lexicographic order; abc gives abc, a.bc, ab.c, a.b.c.
C6_GenerationOrder ==
    (lastOp.op = "generate" /\ lastOp.ok) =>
        LET local == LocalPart(lastOp.name)
            choices == SUBSET (1..(Len(local) - 1))
        IN  /\ Len(gmails) = Cardinality(choices)
            /\ gmails[1] = lastOp.name
            /\ \A P \in choices \ {{}} :
                   gmails[1 + Cardinality({Q \in choices : ComesBefore(Q, P)})]
                       = AtGmail(WithDotsAt(local, P))
            /\ lastOp.name = AtGmail(<<"a", "b", "c">>) =>
                   gmails = <<AtGmail(<<"a", "b", "c">>), AtGmail(<<"a", ".", "b", "c">>),
                              AtGmail(<<"a", "b", ".", "c">>),
                              AtGmail(<<"a", ".", "b", ".", "c">>)>>

\* the pool of four made from abc@gmail.com
C6_Witness ==
    /\ lastOp.op = "generate" /\ lastOp.ok
    /\ lastOp.name = AtGmail(<<"a", "b", "c">>)
    /\ Len(gmails) = 4
    /\ gmails[4] = AtGmail(<<"a", ".", "b", ".", "c">>)

----------------------------------------------------------------------------
(* Properties of the Database calls *)

\* every name a caller may pass, and every key of the record
AllNames == ServiceNameInputs \cup DOMAIN services_data

\* C1: right after generate_domain_names returns normally, every service's
\* list is empty, in memory and in DATABASE_FILE as a restart would load it.
C1_RegenerationResets ==
    (lastOp.op = "generate" /\ lastOp.ok) =>
        /\ \A n \in AllNames : get_service_gmails(services_data, n) = <<>>
        /\ \A n \in AllNames \cup DOMAIN _load_services_data(database_file) :
               get_service_gmails(_load_services_data(database_file), n) = <<>>

\* a regeneration that found services holding aliases
C1_Witness == lastOp.op = "generate" /\ lastOp.ok /\ ~lastOp.unbound

\* C2: assign_gmail_to_service(S, A) with A already in S's list changes
\* neither the record nor DATABASE_FILE and does not save; and after any
\* assign, the same assign again would change nothing.
C2_AssignIdempotent ==
    [][lastOp'.op = "assign" =>
           LET n == lastOp'.name
               g == lastOp'.arg
           IN  /\ g \in Range(get_service_gmails(services_data, n)) =>
                      /\ services_data' = services_data
                      /\ database_file' = database_file
                      /\ ~lastOp'.saved
               /\ assign_gmail_to_service(services_data', n, g)
                      = [data |-> services_data', saved |-> FALSE]]_vars

\* an assign of an alias the service already held
C2_Witness == lastOp.op = "assign" /\ ~lastOp.saved /\ ~lastOp.unbound

\* C3 as stated: the second of two consecutive check_and_assign_gmail(S), S
\* unbound before the first, returns (True, X) after the first returned
\* (False, X).
C3_TwiceInARow ==
    (lastOp.op = "check" /\ lastOp.prev.same /\ lastOp.prev.unbound) =>
        /\ ~lastOp.prev.existed
        /\ lastOp.existed
        /\ lastOp.email = lastOp.prev.email

\* C3 amended: that holds when the pool is not empty, X being a pool member;
\* with an empty pool both calls return (False, the no-gmails message) and
\* S stays unbound.
C3_TwiceInARowNonEmptyPool ==
    (lastOp.op = "check" /\ lastOp.prev.same /\ lastOp.prev.unbound) =>
        IF gmails # <<>>
        THEN /\ ~lastOp.prev.existed
             /\ lastOp.existed
             /\ lastOp.email = lastOp.prev.email
             /\ lastOp.email = gmails[1]
             /\ get_service_gmails(services_data, lastOp.name) = <<lastOp.email>>
        ELSE /\ ~lastOp.prev.existed /\ lastOp.prev.email = NoGmailsMessage
             /\ ~lastOp.existed /\ lastOp.email = NoGmailsMessage
             /\ Unbound(services_data, lastOp.name)

\* the second call found the alias the first one assigned
C3_Witness ==
    /\ lastOp.op = "check" /\ lastOp.prev.same /\ lastOp.prev.unbound
    /\ lastOp.existed /\ lastOp.email \in Range(gmails)

\* C4: get_unused_gmail_for_service(S) is the first pool member that is not
\* in S's list, absent exactly when there is none, and the same whatever the
\* other services hold.
C4_PerServiceScoping ==
    up => \A n \in ServiceNameInputs :
        LET r == get_unused_gmail_for_service(gmails, services_data, n)
            own == Range(get_service_gmails(services_data, n))
            others == DOMAIN services_data \ {Lower(n)}
        IN  /\ r.some <=> \E i \in DOMAIN gmails : gmails[i] \notin own
            /\ r.some =>
                   /\ r.val \notin own
                   /\ \E i \in DOMAIN gmails :
                          /\ gmails[i] = r.val
                          /\ \A j \in 1..(i - 1) : gmails[j] \in own
            /\ \A t \in others : \A l \in {<<>>, gmails} :
                   get_unused_gmail_for_service(
                       gmails, [services_data EXCEPT ![t] = ListVal(l)], n) = r

\* the alias offered to one service is held by another
C4_Witness ==
    /\ up
    /\ \E n \in ServiceNameInputs : \E t \in DOMAIN services_data :
           LET r == get_unused_gmail_for_service(gmails, services_data, n)
           IN  /\ t # Lower(n)
               /\ r.some
               /\ r.val \in Range(get_service_gmails(services_data, t))
               /\ get_service_gmails(services_data, n) # <<>>

\* C7: once the Database is constructed, no service's list holds an alias
\* twice.
C7_NoDuplicateWithinService ==
    up => \A s \in DOMAIN services_data :
        /\ services_data[s].kind = "list"
        /\ \A i, j \in DOMAIN services_data[s].v :
               services_data[s].v[i] = services_data[s].v[j] => i = j

\* an assign gave a service, as its second alias, one that another holds
C7_Witness ==
    /\ up
    /\ lastOp.op = "assign" /\ lastOp.saved
    /\ \E s, t \in DOMAIN services_data :
           /\ s # t
           /\ Len(services_data[s].v) = 2
           /\ services_data[s].v[2] \in Range(services_data[t].v)

\* C8: Database() turns every bare string v of the loaded document into
\* [v], leaves the lists as they are, and has written the result to
\* DATABASE_FILE when it returns; a document without a bare string is not
\* written.
C8_LegacyMigration ==
    [][(~up /\ up' /\ database_file.kind = "json") =>
           LET doc == database_file.doc
               legacy == {s \in DOMAIN doc : doc[s].kind = "str"}
           IN  /\ DOMAIN services_data' = DOMAIN doc
               /\ \A s \in legacy : services_data'[s] = ListVal(<<doc[s].v>>)
               /\ \A s \in DOMAIN doc \ legacy : services_data'[s] = doc[s]
               /\ legacy # {} => database_file' = JsonFile(services_data') /\ lastOp'.saved
               /\ legacy = {} => database_file' = database_file /\ ~lastOp'.saved]_vars

\* a construction that migrated a document holding a bare string and a list
C8_Witness ==
    /\ lastOp.op = "init" /\ lastOp.saved
    /\ database_file = JsonFile(services_data)
    /\ \E s, t \in DOMAIN services_data :
           Len(services_data[s].v) = 1 /\ Len(services_data[t].v) = 2

\* a document holding at least one assignment
HoldsAssignments(file) ==
    /\ file.kind = "json"
    /\ \E s \in DOMAIN file.doc : get_service_gmails(file.doc, s) # <<>>

\* GMAILS_FILE holds a whole generated pool
HoldsGeneratedPool(file) ==
    \E e \in SeedInputs : IsGmail(e) /\ file = TextFile(WrittenLines(GeneratedEmails(e)))

\* C9: no step puts a newly generated pool into GMAILS_FILE and leaves
\* DATABASE_FILE holding assignments: the pool and the reset are committed
\* together or not at all.
C9_AtomicReset ==
    [][(gmails_file' # gmails_file /\ HoldsGeneratedPool(gmails_file'))
           => ~HoldsAssignments(database_file')]_vars

----------------------------------------------------------------------------
(* Memory and the two files *)

\* what Database() would load from the two files as they are now
Reloaded ==
    [gmails |-> _load_gmails(gmails_file),
     services_data |-> _migrate_data_if_needed(_load_services_data(database_file)).data]

\* C11: between two calls of a running Database, loading the two files again
\* gives the pool that is in memory, in the same order, and the assignment
\* record that is in memory.
C11_DurableTracksMemory ==
    up => /\ Reloaded.gmails = gmails
          /\ Reloaded.services_data = services_data

----------------------------------------------------------------------------
(* Properties of the adapter *)

\* C10: a seed text that does not end in @gmail.com makes
\* generate_domain_names raise; pool, record and both files stay as they
\* were and the conversation that took the text keeps waiting for a seed.
C10_InvalidSeedRejected ==
    [][\A u \in Users : \A text \in SeedTexts :
           (ProcessEmailForGeneration(u, text) /\ ~EndsWith(Strip(text), GmailSuffix)) =>
               /\ ~lastOp'.ok
               /\ gmails' = gmails
               /\ services_data' = services_data
               /\ gmails_file' = gmails_file
               /\ database_file' = database_file
               /\ conv' = conv
               /\ Waiting(u)']_vars

\* a seed was refused while the pool and the record were not empty
C10_Witness ==
    /\ lastOp.op = "process_email" /\ ~lastOp.ok /\ ~lastOp.unbound
    /\ gmails # <<>>
    /\ \E u \in lastOp.by : Waiting(u)


----------------------------------------------------------------------------
(* Registration *)

\* C12: check_and_assign_gmail for a service that holds an alias returns
\* (True, the last alias of its list) and leaves the pool, the record and
\* both files as they were, however often it is called.
C12_RegistrationDoesNotRotate ==
    [][(lastOp'.op = "check" /\ ~lastOp'.unbound)
           => LET emails == get_service_gmails(services_data, lastOp'.name)
              IN  /\ lastOp'.existed
                  /\ lastOp'.email = emails[Len(emails)]
                  /\ UNCHANGED <<gmails, services_data, gmails_file, database_file>>]_vars

\* a second call in a row for a service with two aliases, while the pool
\* still has an alias the service does not hold
C12_Witness ==
    /\ lastOp.op = "check"
    /\ lastOp.existed
    /\ lastOp.prev.same /\ lastOp.prev.existed
    /\ Len(get_service_gmails(services_data, lastOp.name)) = 2
    /\ Truthy(get_unused_gmail_for_service(gmails, services_data, lastOp.name))


----------------------------------------------------------------------------
(* Service names *)

\* the five calls that take a service name give the same for n1 and n2
SameResults(n1, n2) ==
    /\ get_service_gmails(services_data, n1) = get_service_gmails(services_data, n2)
    /\ get_latest_service_gmail(services_data, n1) = get_latest_service_gmail(services_data, n2)
    /\ get_unused_gmail_for_service(gmails, services_data, n1)
           = get_unused_gmail_for_service(gmails, services_data, n2)
    /\ check_and_assign_gmail(gmails, services_data, n1)
           = check_and_assign_gmail(gmails, services_data, n2)
    /\ \A g \in GmailInputs(gmails) :
           assign_gmail_to_service(services_data, n1, g)
               = assign_gmail_to_service(services_data, n2, g)

\* C13: every key of the record is lowercase; names that are equal after
\* lower() read and change the same entry and get the same results; and
\* get_service_gmails gives the empty list for a service that has no entry.
C13_CaseInsensitiveNames ==
    /\ \A key \in DOMAIN services_data : Lower(key) = key
    /\ \A n1, n2 \in ServiceNameInputs : Lower(n1) = Lower(n2) => SameResults(n1, n2)
    /\ \A n \in ServiceNameInputs :
           Lower(n) \notin DOMAIN services_data
               => get_service_gmails(services_data, n) = <<>>

\* a call under the name 'Gq' has just added a second alias to the entry
\* 'gq', and another service has no entry
C13_Witness ==
    /\ lastOp.op \in {"assign", "check"}
    /\ lastOp.name = <<"G", "q">>
    /\ lastOp.saved /\ ~lastOp.unbound
    /\ Len(get_service_gmails(services_data, <<"g", "q">>)) = 2
    /\ <<"x">> \notin DOMAIN services_data


----------------------------------------------------------------------------
(* The life of a service's entry *)

\* the assignment record a caller has, or would have after the next start
RecordInForce == IF up THEN services_data ELSE Reloaded.services_data

IsPrefix(s, t) == Len(s) <= Len(t) /\ SubSeq(t, 1, Len(s)) = s

\* the step is a call of generate_domain_names, finished or not
RegenerationStep == lastOp'.op \in {"generate", "stop_in_generate"}

C14_ForwardBetweenCompletedCalls ==
    [][(up /\ up' /\ lastOp'.op # "generate")
           => \A s \in DOMAIN services_data \cup DOMAIN services_data' :
                  /\ IsPrefix(get_service_gmails(services_data, s),
                              get_service_gmails(services_data', s))
                  /\ Len(get_service_gmails(services_data', s))
                         <= Len(get_service_gmails(services_data, s)) + 1]_vars


----------------------------------------------------------------------------
(* Exhaustion *)

\* the service holds no alias and every alias of the pool is in its list
Exhausted(pool, sd, service_name) ==
    /\ get_service_gmails(sd, service_name) = <<>>
    /\ Range(pool) \subseteq Range(get_service_gmails(sd, service_name))

\* C15: check_and_assign_gmail returns (False, the no-gmails message) exactly
\* when the service holds no alias and the pool has none it could get, and
\* then the record and DATABASE_FILE stay as they were; so the message never
\* comes back as an alias that was assigned.
C15_SentinelOnlyWhenExhausted ==
    [][lastOp'.op = "check"
           => LET exhausted == Exhausted(gmails, services_data, lastOp'.name)
              IN  /\ (~lastOp'.existed /\ lastOp'.email = NoGmailsMessage) <=> exhausted
                  /\ exhausted => UNCHANGED <<services_data, database_file>>]_vars


----------------------------------------------------------------------------
(* Startup on files that cannot be read *)

\* C16: Database() always ends with a constructed Database; without
\* GMAILS_FILE the pool is empty, and without DATABASE_FILE or with one that
\* json.load refuses the record is empty and DATABASE_FILE is left alone.
C16_ReadFailuresNonFatal ==
    [][(~up /\ lastOp'.op \in {"init", "init_raised"})
           => /\ up'
              /\ gmails_file.kind = "missing" => gmails' = <<>>
              /\ database_file.kind \in {"missing", "malformed"}
                     => services_data' = EmptyMap /\ UNCHANGED database_file]_vars


----------------------------------------------------------------------------
(* Allocation alone: a Database that starts with an empty record and is     *)
(* used through check_and_assign_gmail, through get_unused_gmail_for_service *)
(* followed by assign_gmail_to_service of what it returned, and through     *)
(* generate_domain_names                                                    *)

\* the engine calls of handle_assign_new
AssignNew(service_name) ==
    /\ up
    /\ LET new_email == get_unused_gmail_for_service(gmails, services_data, service_name)
           r == IF Truthy(new_email)
                THEN assign_gmail_to_service(services_data, service_name, new_email.val)
                ELSE [data |-> services_data, saved |-> FALSE]
       IN  /\ services_data' = r.data
           /\ database_file' = IF r.saved THEN _save_services_data(r.data) ELSE database_file
           /\ lastOp' = [BlankOp EXCEPT !.op = "assign_new", !.name = service_name,
                                        !.ok = Truthy(new_email), !.email = new_email.val,
                                        !.count = Len(get_service_gmails(r.data, service_name)),
                                        !.saved = r.saved,
                                        !.unbound = Unbound(services_data, service_name)]
    /\ UNCHANGED <<up, gmails, gmails_file, conv, user_data, handlers, running>>

InitAlloc ==
    /\ up = TRUE
    /\ gmails_file \in HandKeptGmailsFiles
    /\ gmails = _load_gmails(gmails_file)
    /\ services_data = EmptyMap
    /\ database_file = MissingFile
    /\ conv = NoConversations
    /\ user_data = NoUserData
    /\ lastOp = [BlankOp EXCEPT !.op = "init"]
    /\ handlers = NoHandlers
    /\ running = 0

NextAlloc ==
    \/ \E n \in ServiceNameInputs : CheckAndAssignGmail(n)
    \/ \E n \in ServiceNameInputs : AssignNew(n)
    \/ \E e \in SeedInputs : GenerateDomainNames(e)

SpecAlloc == InitAlloc /\ [][NextAlloc]_vars

\* C17: every service's list is the pool's first aliases in pool order, so
\* the k-th alias a service gets is pool[k-1]; and a service that holds as
\* many aliases as the pool has gets none from get_unused_gmail_for_service.
C17_AllocationFollowsPoolOrder ==
    \A s \in DOMAIN services_data :
        LET emails == get_service_gmails(services_data, s)
        IN  /\ IsPrefix(emails, gmails)
            /\ Len(emails) = Len(gmails)
                   => ~Truthy(get_unused_gmail_for_service(gmails, services_data, s))


----------------------------------------------------------------------------
(* A stop inside a write *)

\* C18: when the process stops inside a call that writes, each file holds
\* what it held before the call or the whole of what the call was writing:
\* DATABASE_FILE a whole document, GMAILS_FILE a whole generated pool.
C18_SingleWriteAtomic ==
    [][lastOp'.op \in {"stop_in_migration", "stop_in_save", "stop_in_generate"}
           => /\ database_file' = database_file \/ database_file'.kind = "json"
              /\ gmails_file' = gmails_file \/ HoldsGeneratedPool(gmails_file')]_vars


----------------------------------------------------------------------------
(* Handlers in flight.  The event loop runs one handler at a time and       *)
(* leaves it only where the handler awaits a call to Telegram; another      *)
(* handler can start or go on there.  The owner is the only user here.      *)
(* Each call of the Database is a step of its own.                          *)

\* every statement of a handler taken as a place where it leaves the loop
await_after_every_statement ==
    {"answer", "check", "list_registered", "view", "get_unused", "assign",
     "list_assigned", "generate", "edit", "reply"}

\* the statements where a handler awaits Telegram: query.answer(),
\* query.edit_message_text(...), update.message.reply_text(...)
AwaitPoints == {"answer", "edit", "reply"}

\* the loop is free, or is running h already
MayRun(h) == running \in {0, h}

\* who the loop runs once h has reached the statement next
Yield(h, next) == IF next \in AwaitPoints THEN 0 ELSE h

\* a press of REGISTER, VIEW_EMAIL or ASSIGN_NEW: button_callback up to
\* `await query.answer()`
ButtonArrives(h, data) ==
    /\ up
    /\ running = 0
    /\ handlers[h].pc = "idle"
    /\ handlers' = [handlers EXCEPT ![h] = [IdleHandler EXCEPT !.pc = "answer", !.data = data]]
    /\ running' = Yield(h, "answer")
    /\ UNCHANGED <<up, gmails, services_data, gmails_file, database_file, conv, user_data,
                   lastOp>>

\* button_callback from query.answer() to the first call of the Database
Dispatch(h) ==
    /\ up
    /\ MayRun(h)
    /\ handlers[h].pc = "answer"
    /\ LET service_name == user_data[OWNER_ID]
           next == IF ~Truthy(service_name) THEN "edit"
                   ELSE IF handlers[h].data = REGISTER THEN "check"
                   ELSE IF handlers[h].data = VIEW_EMAIL THEN "view"
                   ELSE "get_unused"
       IN  /\ handlers' = [handlers EXCEPT ![h].pc = next,
                                           ![h].service_name = service_name.val]
           /\ running' = Yield(h, next)
    /\ UNCHANGED <<up, gmails, services_data, gmails_file, database_file, conv, user_data,
                   lastOp>>

\* handle_registration: has_email, email = db.check_and_assign_gmail(service_name)
CallCheck(h) ==
    /\ up
    /\ MayRun(h)
    /\ handlers[h].pc = "check"
    /\ LET r == check_and_assign_gmail(gmails, services_data, handlers[h].service_name)
           next == IF r.existed THEN "list_registered" ELSE "edit"
       IN  /\ services_data' = r.data
           /\ database_file' = IF r.saved THEN _save_services_data(r.data) ELSE database_file
           /\ handlers' = [handlers EXCEPT ![h].pc = next, ![h].has_email = r.existed,
                                           ![h].email = r.email]
           /\ running' = Yield(h, next)
    /\ UNCHANGED <<up, gmails, gmails_file, conv, user_data, lastOp>>

\* handle_view_email: emails = db.get_service_gmails(service_name)
CallView(h) ==
    /\ up
    /\ MayRun(h)
    /\ handlers[h].pc = "view"
    /\ LET emails == get_service_gmails(services_data, handlers[h].service_name)
       IN  handlers' = [handlers EXCEPT ![h].pc = "edit",
                                        ![h].email = IF emails = <<>> THEN <<>>
                                                     ELSE emails[Len(emails)],
                                        ![h].email_count = Len(emails)]
    /\ running' = Yield(h, "edit")
    /\ UNCHANGED <<up, gmails, services_data, gmails_file, database_file, conv, user_data,
                   lastOp>>

\* handle_assign_new: new_email = db.get_unused_gmail_for_service(service_name)
CallGetUnused(h) ==
    /\ up
    /\ MayRun(h)
    /\ handlers[h].pc = "get_unused"
    /\ LET new_email == get_unused_gmail_for_service(gmails, services_data,
                                                     handlers[h].service_name)
           next == IF Truthy(new_email) THEN "assign" ELSE "edit"
       IN  /\ handlers' = [handlers EXCEPT ![h].pc = next, ![h].new_email = new_email]
           /\ running' = Yield(h, next)
    /\ UNCHANGED <<up, gmails, services_data, gmails_file, database_file, conv, user_data,
                   lastOp>>

\* handle_assign_new: db.assign_gmail_to_service(service_name, new_email)
CallAssign(h) ==
    /\ up
    /\ MayRun(h)
    /\ handlers[h].pc = "assign"
    /\ LET r == assign_gmail_to_service(services_data, handlers[h].service_name,
                                        handlers[h].new_email.val)
       IN  /\ services_data' = r.data
           /\ database_file' = IF r.saved THEN _save_services_data(r.data) ELSE database_file
    /\ handlers' = [handlers EXCEPT ![h].pc = "list_assigned",
                                    ![h].email = handlers[h].new_email.val]
    /\ running' = Yield(h, "list_assigned")
    /\ UNCHANGED <<up, gmails, gmails_file, conv, user_data, lastOp>>

\* all_emails = db.get_service_gmails(service_name); email_count = len(all_emails)
CallList(h) ==
    /\ up
    /\ MayRun(h)
    /\ handlers[h].pc \in {"list_registered", "list_assigned"}
    /\ handlers' = [handlers EXCEPT
                        ![h].pc = "edit",
                        ![h].email_count =
                            Len(get_service_gmails(services_data, handlers[h].service_name))]
    /\ running' = Yield(h, "edit")
    /\ UNCHANGED <<up, gmails, services_data, gmails_file, database_file, conv, user_data,
                   lastOp>>

\* a text while the owner's conversation awaits a seed:
\* process_email_for_generation up to the call of the Database
SeedArrives(h, text) ==
    /\ up
    /\ running = 0
    /\ handlers[h].pc = "idle"
    /\ Waiting(OWNER_ID)
    /\ handlers' = [handlers EXCEPT ![h] = [IdleHandler EXCEPT !.pc = "generate",
                                                               !.data = GENERATE,
                                                               !.text = Strip(text)]]
    /\ running' = Yield(h, "generate")
    /\ UNCHANGED <<up, gmails, services_data, gmails_file, database_file, conv, user_data,
                   lastOp>>

\* count = db.generate_domain_names(email)
CallGenerate(h) ==
    /\ up
    /\ MayRun(h)
    /\ handlers[h].pc = "generate"
    /\ LET r == generate_domain_names(gmails, services_data, handlers[h].text)
       IN  /\ gmails' = r.gmails
           /\ services_data' = r.data
           /\ gmails_file' = IF r.ok THEN TextFile(WrittenLines(r.gmails)) ELSE gmails_file
           /\ database_file' = IF r.ok THEN _save_services_data(r.data) ELSE database_file
           /\ handlers' = [handlers EXCEPT ![h].pc = "reply", ![h].has_email = r.ok,
                                           ![h].email_count = r.count]
    /\ running' = Yield(h, "reply")
    /\ UNCHANGED <<up, conv, user_data, lastOp>>

\* the awaited call to Telegram has returned and the handler returns; a seed
\* handler returns the next state of the conversation
Finish(h) ==
    /\ up
    /\ MayRun(h)
    /\ handlers[h].pc \in {"edit", "reply"}
    /\ conv' = IF handlers[h].pc = "reply" /\ handlers[h].has_email /\ Waiting(OWNER_ID)
               THEN IF Taking(OWNER_ID) = "cmd"
                    THEN [conv EXCEPT ![OWNER_ID].cmd = ConversationEND]
                    ELSE [conv EXCEPT ![OWNER_ID].btn = ConversationEND]
               ELSE conv
    /\ handlers' = [handlers EXCEPT ![h] = IdleHandler]
    /\ running' = 0
    /\ UNCHANGED <<up, gmails, services_data, gmails_file, database_file, user_data, lastOp>>

NextConc ==
    \/ running = 0 /\ GenerateCommand(OWNER_ID)
    \/ \E text \in ServiceTexts : running = 0 /\ HandleServiceName(OWNER_ID, text)
    \/ \E h \in HandlerIds : \E data \in {REGISTER, VIEW_EMAIL, ASSIGN_NEW} :
           ButtonArrives(h, data)
    \/ \E h \in HandlerIds : Dispatch(h)
    \/ \E h \in HandlerIds : CallCheck(h)
    \/ \E h \in HandlerIds : CallView(h)
    \/ \E h \in HandlerIds : CallGetUnused(h)
    \/ \E h \in HandlerIds : CallAssign(h)
    \/ \E h \in HandlerIds : CallList(h)
    \/ \E h \in HandlerIds : \E text \in SeedInputs : SeedArrives(h, text)
    \/ \E h \in HandlerIds : CallGenerate(h)
    \/ \E h \in HandlerIds : Finish(h)

SpecConc == InitAlloc /\ [][NextConc]_vars


\* h has made a call of its sequence and has another one to make
BetweenCalls(h) == handlers[h].pc \in {"list_registered", "assign", "list_assigned"}

\* handle_assign_new has picked an alias for the service and recorded it
GaveNew(h) ==
    /\ handlers[h].data = ASSIGN_NEW
    /\ handlers[h].pc \in {"list_assigned", "edit"}
    /\ Truthy(handlers[h].new_email)

SameService(h, g) == Lower(handlers[h].service_name) = Lower(handlers[g].service_name)

\* while a handler is between two calls of its sequence no other handler
\* takes a step
NotInterleaved ==
    \A h \in HandlerIds :
        BetweenCalls(h) => \A g \in HandlerIds \ {h} : handlers'[g] = handlers[g]

\* the handler that has just made its last call is about to show the alias
\* and the number that the record holds for the service
ReportsWhatItRecorded ==
    \A h \in HandlerIds :
        (handlers[h].pc # "edit" /\ handlers'[h].pc = "edit"
            /\ handlers'[h].data \in {REGISTER, ASSIGN_NEW}
            /\ Truthy(user_data[OWNER_ID]))
            => LET shown == handlers'[h]
                   emails == get_service_gmails(services_data', shown.service_name)
               IN  CASE shown.data = ASSIGN_NEW /\ Truthy(shown.new_email)
                            -> /\ shown.email_count \in 1..Len(emails)
                               /\ emails[shown.email_count] = shown.new_email.val
                     [] shown.data = REGISTER /\ shown.has_email
                            -> /\ shown.email_count \in 1..Len(emails)
                               /\ emails[shown.email_count] = shown.email
                     [] shown.data = REGISTER /\ ~shown.has_email
                                              /\ shown.email # NoGmailsMessage
                            -> emails = <<shown.email>>
                     [] OTHER -> TRUE

\* two handle_assign_new in flight for one service hold different aliases
DifferentAliases ==
    \A h, g \in HandlerIds :
        (h # g /\ GaveNew(h) /\ GaveNew(g) /\ SameService(h, g))
            => handlers[h].new_email # handlers[g].new_email

\* the alias a handle_assign_new records differs from the alias of every
\* other handle_assign_new in flight whose alias the service still holds
DifferentWhileRecorded ==
    \A h \in HandlerIds :
        (handlers[h].pc = "assign" /\ handlers'[h].pc = "list_assigned")
            => \A g \in HandlerIds \ {h} :
                   (GaveNew(g) /\ SameService(h, g)
                       /\ handlers[g].new_email.val
                              \in Range(get_service_gmails(services_data,
                                                           handlers[g].service_name)))
                       => handlers[h].new_email # handlers[g].new_email

\* C19 as claimed: the calls of one handler are not interleaved with those of
\* another; two handle_assign_new in flight for the same service are given
\* different aliases; the alias and number a handler shows are the ones it
\* recorded.
C19_EngineCallsSerialized ==
    [][NotInterleaved /\ ReportsWhatItRecorded /\ DifferentAliases']_vars

\* C19 with the regeneration taken into account: the two aliases differ
\* unless a regeneration has emptied the record between the two handlers'
\* calls.
C19_SerializedUpToRegeneration ==
    [][NotInterleaved /\ ReportsWhatItRecorded /\ DifferentWhileRecorded]_vars

\* two handle_assign_new for the same service are waiting for Telegram, each
\* with its own alias, and the record holds both
C19_Witness ==
    /\ \A h \in HandlerIds : GaveNew(h) /\ handlers[h].pc = "edit"
    /\ SameService(1, 2)
    /\ handlers[1].new_email # handlers[2].new_email
    /\ {handlers[1].new_email.val, handlers[2].new_email.val}
           \subseteq Range(get_service_gmails(services_data, handlers[1].service_name))


----------------------------------------------------------------------------
(* Who changes the Database *)

----------------------------------------------------------------------------
(* The conversation that takes the seed *)

\* C21: a user's update changes the pool only as a text taken by
\* process_email_for_generation while that user's conversation is waiting;
\* a conversation starts waiting only on /generate or the GENERATE button of
\* that user; a text of a user whose conversation is waiting is not taken as
\* a service name; a refused seed leaves the conversation waiting, and after
\* an accepted seed or /cancel it waits no longer.
C21_RegenerationOnlyInConversation ==
    [][\A u \in Users :
           /\ (lastOp'.by = {u} /\ (gmails' # gmails \/ gmails_file' # gmails_file))
                  => lastOp'.op = "process_email" /\ Waiting(u)
           /\ (~Waiting(u) /\ Waiting(u)')
                  => /\ lastOp'.by = {u}
                     /\ lastOp'.op \in {"generate_command", "start_generate_domains"}
           /\ (lastOp'.by = {u} /\ lastOp'.op = "service_name") => ~Waiting(u)
           /\ (lastOp'.by = {u} /\ lastOp'.op = "process_email" /\ ~lastOp'.ok)
                  => Waiting(u)'
           /\ (lastOp'.by = {u} /\ (lastOp'.op = "cancel"
                                      \/ (lastOp'.op = "process_email" /\ lastOp'.ok)))
                  => ~Waiting(u)']_vars

====
